---- MODULE Spec2Model ----
(***************************************************************************)
(* Territory Slicer: the assignment engine of client/src/lib/logic.ts      *)
(* (segmentAccounts, distributeAccounts with its four greedy strategies,   *)
(* the MinHeap, swapRefine / computeTotalCost).                            *)
(*                                                                         *)
(* Numbers.  ARR values are non-negative integers.  The engine's costs are *)
(* JavaScript numbers built from ARR sums, avgARRPerRep = totalARR / k and *)
(* pct / 100; they are modelled as exact rationals, every cost being kept  *)
(* multiplied by a common positive denominator (100 * k for the greedy     *)
(* costs, (100 * k * L)^2 for the swap objective), so that every           *)
(* comparison of the code is an integer comparison here.                   *)
(***************************************************************************)
EXTENDS Integers, Sequences, FiniteSets, TLC

\* ------------------------------------------------------------------ bounds
MaxAccounts == 3
MaxReps == 2
MaxARR == 2
MaxSwapIterations == 2

\* ---------------------------------------------------------- input domains
Enterprise == "Enterprise"
MidMarket == "Mid Market"
Segments == {Enterprise, MidMarket}
Undefined == "undefined"
RepNames == <<"R1", "R2", "R3", "R4", "R5">>
RepLocations == <<"NY", "CA", "NY", "CA", "NY">>
Profiles == {[Location |-> "NY", Risk_Score |-> 90], [Location |-> "CA", Risk_Score |-> 70]}

PureARRBalance == "Pure ARR Balance"
ARRRiskBalance == "ARR + Risk Balance"
ARRGeographicClustering == "ARR + Geographic Clustering"
SmartMultiFactor == "Smart Multi-Factor"
DistributionStrategy ==
  {PureARRBalance, ARRRiskBalance, ARRGeographicClustering, SmartMultiFactor}

\* DEFAULT_STRATEGY_CONFIG
highRiskThreshold == 70
riskPenaltyPct == 8
riskBonusPct == 4
geoBonusPct == 15
workloadPenaltyPct == 6
multiGeoBonusPct == 10
multiRiskPenaltyPct == 5
multiRiskBonusPct == 3

\* Spec starts from accounts segmented with threshold MaxEmployees, each
\* account having MaxEmployees - 1 or MaxEmployees employees; SpecSegment
\* draws employees from 0..MaxEmployees and thresholds from 0..MaxEmployees + 1.
MaxEmployees == 2

\* ----------------------------------------------------------------- helpers
Range(s) == {s[i] : i \in 1..Len(s)}

RECURSIVE SumARR(_)
SumARR(s) == IF s = <<>> THEN 0 ELSE Head(s).ARR + SumARR(Tail(s))


SeqsUpTo(S, n) == UNION {[1..m -> S] : m \in 0..n}


\* Account and Rep records.  Account_ID is the position in the raw input
\* (ids are unique); Assigned_Rep and Segment are Undefined while absent.
Account(id, arr, loc, emp, risk) ==
  [Account_ID |-> id, ARR |-> arr, Location |-> loc, Num_Employees |-> emp,
   Risk_Score |-> risk, Assigned_Rep |-> Undefined, Segment |-> Undefined]

Rep(name, loc, seg) == [Rep_Name |-> name, Location |-> loc, Segment |-> seg]

\* ------------------------------------------------------- segmentAccounts
segmentAccountsStrict(accs, limit) ==
  [i \in 1..Len(accs) |->
     [accs[i] EXCEPT !.Segment =
        IF accs[i].Num_Employees > limit THEN Enterprise ELSE MidMarket]]

segmentAccounts(accs, limit) ==
  [i \in 1..Len(accs) |->
     [accs[i] EXCEPT !.Segment =
        IF accs[i].Num_Employees >= limit THEN Enterprise ELSE MidMarket]]

\* ------------------------------------------------------------------ sort
\* [...accounts].sort((a, b) => b.ARR - a.ARR): Array.prototype.sort is
\* stable, so equal-ARR accounts keep their relative order.
RECURSIVE InsertDesc(_, _)
InsertDesc(sorted, a) ==
  IF sorted = <<>> THEN <<a>>
  ELSE IF Head(sorted).ARR >= a.ARR
       THEN <<Head(sorted)>> \o InsertDesc(Tail(sorted), a)
       ELSE <<a>> \o sorted

RECURSIVE SortFrom(_, _)
SortFrom(sorted, rest) ==
  IF rest = <<>> THEN sorted
  ELSE SortFrom(InsertDesc(sorted, Head(rest)), Tail(rest))

\* [...accounts].sort((a, b) => a.ARR - b.ARR): smallest first.
sortedByARRAsc(accs) ==
  LET d == SortFrom(<<>>, accs) IN [i \in 1..Len(d) |-> d[Len(d) + 1 - i]]

\* [...accounts].sort((a, b) => b.ARR - a.ARR)
sortedByARRDesc(accs) == SortFrom(<<>>, accs)

\* --------------------------------------------------------------- MinHeap
\* heap: sequence of [key, value]; index i here is index i - 1 of the code.
HeapSwap(h, i, j) == [h EXCEPT ![i] = h[j], ![j] = h[i]]

\* siftUp with the comparison turned round: the larger key rises.
RECURSIVE siftUpReversed(_, _)
siftUpReversed(h, i) ==
  IF i > 1
  THEN LET parent == i \div 2
       IN IF h[parent].key >= h[i].key THEN h
          ELSE siftUpReversed(HeapSwap(h, parent, i), parent)
  ELSE h

RECURSIVE siftUp(_, _)
siftUp(h, i) ==
  IF i > 1
  THEN LET parent == i \div 2
       IN IF h[parent].key <= h[i].key THEN h
          ELSE siftUp(HeapSwap(h, parent, i), parent)
  ELSE h

RECURSIVE siftDown(_, _)
siftDown(h, i) ==
  LET n == Len(h)
      left == 2 * i
      right == 2 * i + 1
      s1 == IF left <= n /\ h[left].key < h[i].key THEN left ELSE i
      smallest == IF right <= n /\ h[right].key < h[s1].key THEN right ELSE s1
  IN IF smallest = i THEN h
     ELSE siftDown(HeapSwap(h, smallest, i), smallest)

HeapPush(h, key, value) ==
  siftUp(Append(h, [key |-> key, value |-> value]), Len(h) + 1)

\* pop() as the pair of the returned entry and the heap left behind.
HeapPop(h) ==
  IF Len(h) = 0 THEN [top |-> Undefined, heap |-> h]
  ELSE LET top == h[1]
           last == h[Len(h)]
           shorter == SubSeq(h, 1, Len(h) - 1)
       IN [top |-> top,
           heap |-> IF Len(shorter) > 0
                    THEN siftDown([shorter EXCEPT ![1] = last], 1)
                    ELSE shorter]

RECURSIVE HeapOfReps(_, _)
HeapOfReps(h, rs) ==
  IF rs = <<>> THEN h
  ELSE HeapOfReps(HeapPush(h, 0, [repName |-> Head(rs).Rep_Name, currentARR |-> 0]),
                  Tail(rs))
\* ------------------------------------------------- greedy cost functions
\* Every greedy cost below is the code's cost multiplied by 100 * k, where
\* k = reps.length and T = totalARR of the pool: avgARRPerRep * (pct / 100)
\* becomes T * pct and stats.totalARR becomes stats.totalARR * 100 * k.
isHighRisk(account) == account.Risk_Score > highRiskThreshold

\* A rule whose band boundaries 0.40 and 0.20 are themselves adjusted.
riskAdjustmentInclusive(account, stats, T, penaltyPct, bonusPct) ==
  IF isHighRisk(account) /\ stats.count > 0
  THEN IF 5 * stats.highRiskCount >= 2 * stats.count THEN T * penaltyPct
       ELSE IF 5 * stats.highRiskCount <= stats.count THEN 0 - T * bonusPct
       ELSE 0
  ELSE 0

\* currentRiskPct = highRiskCount / count;  > 0.40 and < 0.20 cross-multiplied.
riskAdjustment(account, stats, T, penaltyPct, bonusPct) ==
  IF isHighRisk(account) /\ stats.count > 0
  THEN IF 5 * stats.highRiskCount > 2 * stats.count THEN T * penaltyPct
       ELSE IF 5 * stats.highRiskCount < stats.count THEN 0 - T * bonusPct
       ELSE 0
  ELSE 0

arrRiskCost(account, rep, stats, n, k, T) ==
  stats.totalARR * 100 * k
    + riskAdjustment(account, stats, T, riskPenaltyPct, riskBonusPct)

arrGeographyCost(account, rep, stats, n, k, T) ==
  stats.totalARR * 100 * k
    - (IF account.Location = rep.Location THEN T * geoBonusPct ELSE 0)

\* A multi-factor cost that never charges the workload penalty.
smartMultiFactorCostNoWorkload(account, rep, stats, n, k, T) ==
  stats.totalARR * 100 * k
    - (IF account.Location = rep.Location THEN T * multiGeoBonusPct ELSE 0)
    + riskAdjustment(account, stats, T, multiRiskPenaltyPct, multiRiskBonusPct)

\* stats.count > targetCount * 1.1 with targetCount = n / k.
smartMultiFactorCost(account, rep, stats, n, k, T) ==
  stats.totalARR * 100 * k
    + (IF stats.count * 10 * k > 11 * n THEN T * workloadPenaltyPct ELSE 0)
    - (IF account.Location = rep.Location THEN T * multiGeoBonusPct ELSE 0)
    + riskAdjustment(account, stats, T, multiRiskPenaltyPct, multiRiskBonusPct)

greedyCost(strat, account, rep, stats, n, k, T) ==
  CASE strat = ARRRiskBalance -> arrRiskCost(account, rep, stats, n, k, T)
    [] strat = ARRGeographicClustering -> arrGeographyCost(account, rep, stats, n, k, T)
    [] strat = SmartMultiFactor -> smartMultiFactorCost(account, rep, stats, n, k, T)
    [] OTHER -> stats.totalARR * 100 * k

\* A scan that lets a later rep win a tie (cost <= minCost).
RECURSIVE scanRepsLastWins(_, _, _, _, _, _, _)
scanRepsLastWins(strat, account, rs, i, stats, accts, best) ==
  IF i > Len(rs) THEN best.name
  ELSE LET rep == rs[i]
           cost == greedyCost(strat, account, rep, stats[rep.Rep_Name],
                              Len(accts), Len(rs), SumARR(accts))
       IN IF best.inf \/ cost <= best.cost
          THEN scanRepsLastWins(strat, account, rs, i + 1, stats, accts,
                                [name |-> rep.Rep_Name, cost |-> cost, inf |-> FALSE])
          ELSE scanRepsLastWins(strat, account, rs, i + 1, stats, accts, best)

\* The scan  "let bestRepName = reps[0].Rep_Name; let minCost = Infinity;
\* for (const rep of reps) { ... if (cost < minCost) {...} }":
\* best is [name, cost, inf] with inf = TRUE while minCost is Infinity.
RECURSIVE scanReps(_, _, _, _, _, _, _)
scanReps(strat, account, rs, i, stats, accts, best) ==
  IF i > Len(rs) THEN best.name
  ELSE LET rep == rs[i]
           cost == greedyCost(strat, account, rep, stats[rep.Rep_Name],
                              Len(accts), Len(rs), SumARR(accts))
       IN IF best.inf \/ cost < best.cost
          THEN scanReps(strat, account, rs, i + 1, stats, accts,
                        [name |-> rep.Rep_Name, cost |-> cost, inf |-> FALSE])
          ELSE scanReps(strat, account, rs, i + 1, stats, accts, best)

bestRepName(strat, account, rs, stats, accts) ==
  scanReps(strat, account, rs, 1, stats, accts,
           [name |-> rs[1].Rep_Name, cost |-> 0, inf |-> TRUE])

\* new Map(reps.map(r => [r.Rep_Name, {...r, totalARR: 0, count: 0, ...}]))
initRepStats(rs) ==
  [name \in {r.Rep_Name : r \in Range(rs)} |->
     LET r == CHOOSE x \in Range(rs) : x.Rep_Name = name
     IN [Location |-> r.Location, totalARR |-> 0, count |-> 0,
         highRiskCount |-> 0, sameStateCount |-> 0]]

\* The aggregates of the winner after the account is placed.  Strategy 2
\* keeps no sameStateCount and strategy 3 no highRiskCount.
updateRepStats(strat, stats, name, account) ==
  [stats EXCEPT ![name] =
     [@ EXCEPT !.totalARR = @ + account.ARR,
               !.count = @ + 1,
               !.highRiskCount =
                  IF strat # ARRGeographicClustering /\ isHighRisk(account)
                  THEN @ + 1 ELSE @,
               !.sameStateCount =
                  IF strat # ARRRiskBalance /\ account.Location = stats[name].Location
                  THEN @ + 1 ELSE @]]

\* { ...a, Assigned_Rep: undefined } / { ...acc, Assigned_Rep: name }
unassign(accs) == [i \in 1..Len(accs) |-> [accs[i] EXCEPT !.Assigned_Rep = Undefined]]

\* An assignment that rebuilds the account without its ARR.
assignLosingARR(acc, name) == [acc EXCEPT !.Assigned_Rep = name, !.ARR = 0]

\* An assignment that passes over an account without revenue.
assignSkippingZero(acc, name) ==
  IF acc.ARR = 0 THEN acc ELSE [acc EXCEPT !.Assigned_Rep = name]

assign(acc, name) == [acc EXCEPT !.Assigned_Rep = name]
\* ------------------------------------------------------ computeTotalCost
RECURSIVE Gcd(_, _)
Gcd(a, b) == IF b = 0 THEN a ELSE Gcd(b, a % b)

RECURSIVE LcmUpTo(_)
LcmUpTo(n) == IF n <= 1 THEN 1
              ELSE LET l == LcmUpTo(n - 1) IN (l * n) \div Gcd(l, n)

\* The objective of the code multiplied by costScale(accs, rs) =
\* (100 * k * L)^2, L a common multiple of every possible mine.length.
\* For pools of at most 4 accounts, 3 reps and ARR up to 3 every scaled
\* term stays below 2^31.
costL(accs) == LcmUpTo(Len(accs))
costScale(accs, rs) == (100 * Len(rs) * costL(accs)) * (100 * Len(rs) * costL(accs))

\* 0.01 on the same scale.
epsilon(accs, rs) == costScale(accs, rs) \div 100

mineOf(accs, rs, rep) ==
  SelectSeq(accs, LAMBDA a : a.Assigned_Rep # Undefined
                             /\ a.Assigned_Rep \in {r.Rep_Name : r \in Range(rs)}
                             /\ a.Assigned_Rep = rep.Rep_Name)

repCost(accs, rs, strat, rep) ==
  LET k == Len(rs)
      n == Len(accs)
      L == costL(accs)
      T == SumARR(accs)
      mine == mineOf(accs, rs, rep)
      m == Len(mine)
      repARR == SumARR(mine)
      base == ((k * repARR - T) * 100 * L) * ((k * repARR - T) * 100 * L)
      highRiskCount == Len(SelectSeq(mine, isHighRisk))
      penaltyPct == IF strat = ARRRiskBalance THEN riskPenaltyPct ELSE multiRiskPenaltyPct
      riskRoot == IF m > 0 THEN highRiskCount * T * penaltyPct * (L \div m) ELSE 0
      risk == IF strat \in {ARRRiskBalance, SmartMultiFactor}
              THEN riskRoot * riskRoot ELSE 0
      sameStateCount == Len(SelectSeq(mine, LAMBDA a : a.Location = rep.Location))
      bonusPct == IF strat = ARRGeographicClustering THEN geoBonusPct ELSE multiGeoBonusPct
      geo == IF strat \in {ARRGeographicClustering, SmartMultiFactor}
             THEN sameStateCount * T * bonusPct * 100 * k * L * L ELSE 0
      workload == IF strat = SmartMultiFactor /\ m * 10 * k > 11 * n
                  THEN (T * workloadPenaltyPct * L) * (T * workloadPenaltyPct * L)
                  ELSE 0
  IN base + risk - geo + workload

RECURSIVE sumRepCost(_, _, _, _)
sumRepCost(accs, rs, strat, i) ==
  IF i > Len(rs) THEN 0
  ELSE repCost(accs, rs, strat, rs[i]) + sumRepCost(accs, rs, strat, i + 1)

computeTotalCost(accs, rs, strat) == sumRepCost(accs, rs, strat, 1)

\* ------------------------------------------------------------ swapRefine
\* One pass of the outer loop.  Rejected swaps are reverted, so the scan
\* over (ri, rj, idxA, idxB) sees the same `current` until a swap is kept;
\* the pass keeps the first improving candidate in scan order.

\* A scan that only tries an account of the first rep against later accounts.
swapCandidatesForward(cur, rs) ==
  {c \in (1..Len(rs)) \X (1..Len(rs)) \X (1..Len(cur)) \X (1..Len(cur)) :
     /\ c[1] < c[2]
     /\ c[3] < c[4]
     /\ cur[c[3]].Assigned_Rep = rs[c[1]].Rep_Name
     /\ cur[c[4]].Assigned_Rep = rs[c[2]].Rep_Name}

swapCandidates(cur, rs) ==
  {c \in (1..Len(rs)) \X (1..Len(rs)) \X (1..Len(cur)) \X (1..Len(cur)) :
     /\ c[1] < c[2]
     /\ cur[c[3]].Assigned_Rep = rs[c[1]].Rep_Name
     /\ cur[c[4]].Assigned_Rep = rs[c[2]].Rep_Name}

scanBefore(c, d) ==
  \/ c[1] < d[1]
  \/ c[1] = d[1] /\ c[2] < d[2]
  \/ c[1] = d[1] /\ c[2] = d[2] /\ c[3] < d[3]
  \/ c[1] = d[1] /\ c[2] = d[2] /\ c[3] = d[3] /\ c[4] <= d[4]

\* A swap that moves the first account and leaves the second where it is.
applySwapOneSided(cur, rs, c) ==
  [cur EXCEPT ![c[3]].Assigned_Rep = rs[c[2]].Rep_Name]

applySwap(cur, rs, c) ==
  [cur EXCEPT ![c[3]].Assigned_Rep = rs[c[2]].Rep_Name,
              ![c[4]].Assigned_Rep = rs[c[1]].Rep_Name]

\* The tolerance with its sign turned: newCost < bestCost + 0.01.
improvingSwapsWithinTolerance(cur, rs, strat, best) ==
  {c \in swapCandidates(cur, rs) :
     computeTotalCost(applySwap(cur, rs, c), rs, strat) < best + epsilon(cur, rs)}

improvingSwaps(cur, rs, strat, best) ==
  {c \in swapCandidates(cur, rs) :
     computeTotalCost(applySwap(cur, rs, c), rs, strat) < best - epsilon(cur, rs)}

firstImproving(cur, rs, strat, best) ==
  LET imp == improvingSwaps(cur, rs, strat, best)
  IN CHOOSE c \in imp : \A d \in imp : scanBefore(c, d)
\* ================================================================= state
VARIABLES
  rawAccounts, \* segmentAccounts argument: the accounts of the dataset
  threshold,   \* segmentAccounts argument
  accounts,    \* segmentAccounts result = distributeAccounts argument
  reps,        \* distributeAccounts argument
  strategy,    \* distributeAccounts argument
  config,      \* distributeAccounts argument (the two refinement settings)
  pc,          \* "segment", "segmented" / "dispatch", "greedy", "swap", "done"
  seg,         \* the pool dispatch is working on
  heap,        \* greedyBinPacking: the MinHeap
  repStats,    \* strategies 2-4: the running aggregates
  assigned,    \* the accounts mapped so far by the greedy pass
  current,     \* swapRefine: the mutable copy
  bestCost,    \* swapRefine: bestCost (scaled)
  iter,        \* swapRefine: iter
  entResult,   \* dispatch(entAccounts, entReps)
  result,      \* the returned array
  statsThreshold, \* calculateRepStats argument highRiskThreshold
  statsOut,    \* calculateRepStats: the returned RepStats list
  store,       \* the objects allocated so far, by reference (1, 2, ...)
  arrays       \* the arrays of references held by the caller and the engine

vars == <<rawAccounts, threshold, accounts, reps, strategy, config, pc, seg,
          heap, repStats, assigned, current, bestCost, iter, entResult, result,
          statsThreshold, statsOut, store, arrays>>

inputs == <<rawAccounts, threshold, accounts, reps, strategy, config>>

aggregate == <<statsThreshold, statsOut>>

objects == <<store, arrays>>

noArrays ==
  [accounts |-> <<>>, reps |-> <<>>, segmented |-> <<>>, entResult |-> <<>>,
   mmResult |-> <<>>, distributed |-> <<>>, stats |-> <<>>]

\* ---------------------------------------------------------------- inputs
\* An account is high-risk in NY or low-risk in CA (Profiles), has 0..MaxARR
\* ARR and MaxEmployees - 1 or MaxEmployees employees.
RawAccounts ==
  {[i \in 1..Len(f) |->
      Account(i, f[i][1], f[i][2].Location, f[i][3], f[i][2].Risk_Score)] :
     f \in SeqsUpTo((0..MaxARR) \X Profiles \X {MaxEmployees - 1, MaxEmployees},
                    MaxAccounts)}

\* Rep i is named RepNames[i] (names are unique within a run) and lives in
\* RepLocations[i]; its Segment is free.
RepLists ==
  {[i \in 1..Len(f) |-> Rep(RepNames[i], RepLocations[i], f[i])] :
     f \in SeqsUpTo(Segments, MaxReps)}

Configs ==
  {[enableSwapRefinement |-> FALSE, maxSwapIterations |-> MaxSwapIterations]}
    \cup {[enableSwapRefinement |-> TRUE, maxSwapIterations |-> m] :
            m \in 0..MaxSwapIterations}

idle ==
  /\ seg = Enterprise
  /\ heap = <<>>
  /\ repStats = <<>>
  /\ assigned = <<>>
  /\ current = <<>>
  /\ bestCost = 0
  /\ iter = 0
  /\ entResult = <<>>
  /\ result = <<>>
  /\ statsThreshold = highRiskThreshold
  /\ statsOut = <<>>
  /\ store = <<>>
  /\ arrays = noArrays

\* distributeAccounts is called with the accounts segmentAccounts returned.
Init ==
  /\ rawAccounts \in RawAccounts
  /\ threshold = MaxEmployees
  /\ accounts = segmentAccounts(rawAccounts, threshold)
  /\ reps \in RepLists
  /\ strategy \in DistributionStrategy
  /\ config \in Configs
  /\ pc = "dispatch"
  /\ idle

\* ------------------------------------------------------ distributeAccounts
\* accounts.filter(a => a.Segment === s), reps.filter(r => r.Segment === s)
poolAccountsUnfiltered(accs, s) == accs
poolAccounts(accs, s) == SelectSeq(accs, LAMBDA a : a.Segment = s)

poolRepsUnfiltered(rs, s) == rs
poolReps(rs, s) == SelectSeq(rs, LAMBDA r : r.Segment = s)

accts == poolAccounts(accounts, seg)
segReps == poolReps(reps, seg)
sortedAccounts == sortedByARRDesc(accts)

\* dispatch returns r: the Enterprise call is followed by the Mid Market
\* call, whose return builds [...dispatch(ent), ...dispatch(mm)].
Return(r) ==
  IF seg = Enterprise
  THEN /\ entResult' = r
       /\ seg' = MidMarket
       /\ pc' = "dispatch"
       /\ result' = result
  ELSE /\ result' = entResult \o r
       /\ pc' = "done"
       /\ UNCHANGED <<entResult, seg>>

\* The two early returns of dispatch.
dispatchGuardDropping(as, rs) ==
  IF Len(as) = 0 \/ Len(rs) = 0 THEN [returns |-> TRUE, value |-> <<>>]
  ELSE [returns |-> FALSE, value |-> <<>>]

dispatchGuard(as, rs) ==
  IF Len(as) = 0 THEN [returns |-> TRUE, value |-> <<>>]
  ELSE IF Len(rs) = 0 THEN [returns |-> TRUE, value |-> unassign(as)]
  ELSE [returns |-> FALSE, value |-> <<>>]

usesLinearScan == strategy \in {ARRRiskBalance, ARRGeographicClustering, SmartMultiFactor}

\* dispatch up to the start of the strategy's map().
Dispatch ==
  /\ pc = "dispatch"
  /\ IF dispatchGuard(accts, segReps).returns
     THEN /\ Return(dispatchGuard(accts, segReps).value)
          /\ UNCHANGED <<heap, repStats, assigned>>
     ELSE /\ pc' = "greedy"
          /\ assigned' = <<>>
          /\ heap' = IF usesLinearScan THEN <<>> ELSE HeapOfReps(<<>>, segReps)
          /\ repStats' = IF usesLinearScan THEN initRepStats(segReps) ELSE <<>>
          /\ UNCHANGED <<seg, entResult, result>>
  /\ UNCHANGED <<inputs, current, bestCost, iter, aggregate, objects>>

\* A callback that pushes the rep back under the key it was popped with.
greedyBinPackingStaleKey(h, acc) ==
  LET popped == HeapPop(h)
      value == [popped.top.value EXCEPT !.currentARR = @ + acc.ARR]
  IN [heap |-> HeapPush(popped.heap, popped.top.key, value),
      account |-> assign(acc, value.repName)]

\* One callback of sortedAccounts.map(...) in greedyBinPacking.
greedyBinPacking(h, acc) ==
  LET popped == HeapPop(h)
      value == [popped.top.value EXCEPT !.currentARR = @ + acc.ARR]
  IN [heap |-> HeapPush(popped.heap, value.currentARR, value),
      account |-> assign(acc, value.repName)]

\* One callback of sortedAccounts.map(...) in strategies 2-4.
linearScan(strat, stats, acc, rs, as) ==
  LET best == bestRepName(strat, acc, rs, stats, as)
  IN [repStats |-> updateRepStats(strat, stats, best, acc),
      account |-> assign(acc, best)]

GreedyStep ==
  /\ pc = "greedy"
  /\ Len(assigned) < Len(sortedAccounts)
  /\ LET acc == sortedAccounts[Len(assigned) + 1]
     IN IF usesLinearScan
        THEN LET step == linearScan(strategy, repStats, acc, segReps, accts)
             IN /\ repStats' = step.repStats
                /\ assigned' = Append(assigned, step.account)
                /\ heap' = heap
        ELSE LET step == greedyBinPacking(heap, acc)
             IN /\ heap' = step.heap
                /\ assigned' = Append(assigned, step.account)
                /\ repStats' = repStats
  /\ UNCHANGED <<inputs, pc, seg, current, bestCost, iter, entResult, result, aggregate, objects>>

\* swapRefine's first line: if (reps.length < 2 || accounts.length < 2) return accounts
refines(cfg, as, rs) == cfg.enableSwapRefinement /\ ~(Len(rs) < 2 \/ Len(as) < 2)

\* The strategy returns; dispatch runs swapRefine when enabled.
GreedyReturn ==
  /\ pc = "greedy"
  /\ Len(assigned) = Len(sortedAccounts)
  /\ IF refines(config, assigned, segReps)
     THEN /\ current' = assigned
          /\ bestCost' = computeTotalCost(assigned, segReps, strategy)
          /\ iter' = 0
          /\ pc' = "swap"
          /\ UNCHANGED <<seg, entResult, result>>
     ELSE /\ Return(assigned)
          /\ UNCHANGED <<current, bestCost, iter>>
  /\ UNCHANGED <<inputs, heap, repStats, assigned, aggregate, objects>>

\* The loop condition without the iteration cap.
passImprovesUncapped ==
  improvingSwaps(current, segReps, strategy, bestCost) # {}

\* A pass of the outer loop runs and keeps a swap (improved = true).
passImproves ==
  /\ iter < config.maxSwapIterations
  /\ improvingSwaps(current, segReps, strategy, bestCost) # {}

SwapPass ==
  /\ pc = "swap"
  /\ passImproves
  /\ LET c == firstImproving(current, segReps, strategy, bestCost)
     IN /\ current' = applySwap(current, segReps, c)
        /\ bestCost' = computeTotalCost(applySwap(current, segReps, c), segReps, strategy)
  /\ iter' = iter + 1
  /\ UNCHANGED <<inputs, pc, seg, heap, repStats, assigned, entResult, result, aggregate, objects>>

\* The loop ends: the iteration cap is reached, or a pass found no
\* improving swap (break); swapRefine returns current.
SwapReturn ==
  /\ pc = "swap"
  /\ ~passImproves
  /\ Return(current)
  /\ UNCHANGED <<inputs, heap, repStats, assigned, current, bestCost, iter, aggregate, objects>>

Next == Dispatch \/ GreedyStep \/ GreedyReturn \/ SwapPass \/ SwapReturn

Spec == Init /\ [][Next]_vars

\* --------------------------------------------------- segmentAccounts alone
\* The dataset before segmentation: any employee count in 0..MaxEmployees,
\* any threshold, and a Segment label possibly left by an earlier run.
RawDatasets ==
  {[i \in 1..Len(f) |->
      [Account(i, i % (MaxARR + 1), "NY", f[i][1], 70) EXCEPT !.Segment = f[i][2]]] :
     f \in SeqsUpTo((0..MaxEmployees) \X (Segments \cup {Undefined}), MaxAccounts)}

InitSegment ==
  /\ rawAccounts \in RawDatasets
  /\ threshold \in 0..(MaxEmployees + 1)
  /\ accounts = <<>>
  /\ reps = <<>>
  /\ strategy = PureARRBalance
  /\ config = [enableSwapRefinement |-> FALSE, maxSwapIterations |-> 0]
  /\ pc = "segment"
  /\ idle

Segment ==
  /\ pc = "segment"
  /\ accounts' = segmentAccounts(rawAccounts, threshold)
  /\ pc' = "segmented"
  /\ UNCHANGED <<rawAccounts, threshold, reps, strategy, config, seg, heap, repStats,
                 assigned, current, bestCost, iter, entResult, result, aggregate, objects>>

NextSegment == Segment

SpecSegment == InitSegment /\ [][NextSegment]_vars
\* ------------------------------------------ one pool with realistic spread
\* distributeAccounts on a single Enterprise pool of up to MaxAccounts + 1
\* accounts whose ARR is BaseARR or BaseARR + MaxARR: accounts of similar
\* size, as in a real book, where the geography and risk terms of the swap
\* objective are of the order of the balance term.
BaseARR == 13

RefineAccounts ==
  {[i \in 1..Len(f) |->
      Account(i, f[i][1], f[i][2].Location, MaxEmployees, f[i][2].Risk_Score)] :
     f \in SeqsUpTo({BaseARR, BaseARR + MaxARR} \X Profiles, MaxAccounts + 1)}

RefineRepLists ==
  {[i \in 1..Len(f) |-> Rep(RepNames[i], RepLocations[i], f[i])] :
     f \in SeqsUpTo({Enterprise}, MaxReps)}

InitRefine ==
  /\ rawAccounts \in RefineAccounts
  /\ threshold = MaxEmployees
  /\ accounts = segmentAccounts(rawAccounts, threshold)
  /\ reps \in RefineRepLists
  /\ strategy \in DistributionStrategy
  /\ config \in Configs
  /\ pc = "dispatch"
  /\ idle

SpecRefine == InitRefine /\ [][Next]_vars

\* ------------------------------------------------------- two staffed pools
\* distributeAccounts with MaxReps + 1 reps, both segments staffed: one pool
\* has several reps to choose from while the other pool is served too.
PoolRepLists ==
  {[i \in 1..(MaxReps + 1) |-> Rep(RepNames[i], RepLocations[i], f[i])] :
     f \in {g \in [1..(MaxReps + 1) -> Segments] :
              \A s \in Segments : \E i \in 1..(MaxReps + 1) : g[i] = s}}

PoolConfigs ==
  {[enableSwapRefinement |-> b, maxSwapIterations |-> MaxSwapIterations] :
     b \in BOOLEAN}

InitPools ==
  /\ rawAccounts \in RawAccounts
  /\ threshold = MaxEmployees
  /\ accounts = segmentAccounts(rawAccounts, threshold)
  /\ reps \in PoolRepLists
  /\ strategy \in DistributionStrategy
  /\ config \in PoolConfigs
  /\ pc = "dispatch"
  /\ idle

SpecPools == InitPools /\ [][Next]_vars

\* ------------------------------------------------- the heap pass at length
\* Pure ARR Balance without refinement on one Enterprise pool of up to
\* MaxAccounts + 2 accounts and MaxReps + 2 reps: heaps of three levels and
\* long runs of ties.
PureAccounts ==
  {[i \in 1..Len(f) |-> Account(i, f[i], "NY", MaxEmployees, 70)] :
     f \in SeqsUpTo(0..MaxARR, MaxAccounts + 2)}

PureRepLists ==
  {[i \in 1..k |-> Rep(RepNames[i], RepLocations[i], Enterprise)] :
     k \in 0..(MaxReps + 2)}

InitPure ==
  /\ rawAccounts \in PureAccounts
  /\ threshold = MaxEmployees
  /\ accounts = segmentAccounts(rawAccounts, threshold)
  /\ reps \in PureRepLists
  /\ strategy = PureARRBalance
  /\ config = [enableSwapRefinement |-> FALSE, maxSwapIterations |-> MaxSwapIterations]
  /\ pc = "dispatch"
  /\ idle

NextPure == Dispatch \/ GreedyStep \/ GreedyReturn

SpecPure == InitPure /\ [][NextPure]_vars

\* ------------------------------------------------------ a MinHeap by itself
\* A MinHeap used on its own, pc = "heap": it starts empty and takes any
\* sequence of push and pop up to MaxHeapSize entries, next to the Pure ARR
\* Balance pass that uses one.
MaxHeapSize == 5

HeapValues ==
  {[repName |-> RepNames[i], currentARR |-> c] : i \in 1..MaxReps, c \in 0..MaxARR}

InitHeap ==
  /\ rawAccounts = <<>>
  /\ threshold = MaxEmployees
  /\ accounts = <<>>
  /\ reps = <<>>
  /\ strategy = PureARRBalance
  /\ config = [enableSwapRefinement |-> FALSE, maxSwapIterations |-> MaxSwapIterations]
  /\ pc = "heap"
  /\ idle

push ==
  /\ pc = "heap"
  /\ Len(heap) < MaxHeapSize
  /\ \E value \in HeapValues : heap' = HeapPush(heap, value.currentARR, value)
  /\ UNCHANGED <<inputs, pc, seg, repStats, assigned, current, bestCost, iter,
                 entResult, result, aggregate, objects>>

pop ==
  /\ pc = "heap"
  /\ heap' = HeapPop(heap).heap
  /\ UNCHANGED <<inputs, pc, seg, repStats, assigned, current, bestCost, iter,
                 entResult, result, aggregate, objects>>

InitHeapOrPure == InitHeap \/ InitPure

NextHeap == push \/ pop \/ Dispatch \/ GreedyStep \/ GreedyReturn

SpecHeap == InitHeapOrPure /\ [][NextHeap]_vars

\* ------------------------------------------- the greedy pass, every profile
\* The greedy pass of each strategy on one Enterprise pool of up to
\* MaxReps + 1 reps, the accounts taking every combination of location and
\* of risk above or at the threshold.
GreedyProfiles == {"NY", "CA"} \X {highRiskThreshold, 90}

GreedyAccounts ==
  {[i \in 1..Len(f) |-> Account(i, f[i][1], f[i][2][1], MaxEmployees, f[i][2][2])] :
     f \in SeqsUpTo((0..MaxARR) \X GreedyProfiles, MaxAccounts)}

GreedyRepLists ==
  {[i \in 1..k |-> Rep(RepNames[i], RepLocations[i], Enterprise)] :
     k \in 0..(MaxReps + 1)}

InitGreedy ==
  /\ rawAccounts \in GreedyAccounts
  /\ threshold = MaxEmployees
  /\ accounts = segmentAccounts(rawAccounts, threshold)
  /\ reps \in GreedyRepLists
  /\ strategy \in DistributionStrategy
  /\ config = [enableSwapRefinement |-> FALSE, maxSwapIterations |-> MaxSwapIterations]
  /\ pc = "dispatch"
  /\ idle

NextGreedy == Dispatch \/ GreedyStep \/ GreedyReturn

SpecGreedy == InitGreedy /\ [][NextGreedy]_vars

\* ------------------------------------------------ the risk bands in a pass
\* The greedy pass of the two risk-aware strategies on one Enterprise pool
\* long enough for a rep to hold five accounts, so that the high-risk
\* fractions 1/5 and 2/5 occur.
RiskAccounts ==
  {[i \in 1..Len(f) |-> Account(i, f[i][1], "NY", MaxEmployees, f[i][2])] :
     f \in SeqsUpTo((0..(MaxARR - 1)) \X {highRiskThreshold, 90}, MaxAccounts + 3)}

RiskRepLists ==
  {[i \in 1..k |-> Rep(RepNames[i], RepLocations[i], Enterprise)] : k \in 1..MaxReps}

InitRisk ==
  /\ rawAccounts \in RiskAccounts
  /\ threshold = MaxEmployees
  /\ accounts = segmentAccounts(rawAccounts, threshold)
  /\ reps \in RiskRepLists
  /\ strategy \in {ARRRiskBalance, SmartMultiFactor}
  /\ config = [enableSwapRefinement |-> FALSE, maxSwapIterations |-> MaxSwapIterations]
  /\ pc = "dispatch"
  /\ idle

NextRisk == Dispatch \/ GreedyStep \/ GreedyReturn

SpecRisk == InitRisk /\ [][NextRisk]_vars

\* -------------------------------------------- the multi-factor pass alone
\* The Smart Multi-Factor greedy pass on one Enterprise pool of up to five
\* accounts of either location and either side of the risk threshold, long
\* enough for a rep to exceed 1.1 times the target count.
MultiAccounts ==
  {[i \in 1..Len(f) |-> Account(i, f[i][1], f[i][2][1], MaxEmployees, f[i][2][2])] :
     f \in SeqsUpTo((0..(MaxARR - 1)) \X GreedyProfiles, MaxAccounts + 2)}

InitMulti ==
  /\ rawAccounts \in MultiAccounts
  /\ threshold = MaxEmployees
  /\ accounts = segmentAccounts(rawAccounts, threshold)
  /\ reps \in RiskRepLists
  /\ strategy = SmartMultiFactor
  /\ config = [enableSwapRefinement |-> FALSE, maxSwapIterations |-> MaxSwapIterations]
  /\ pc = "dispatch"
  /\ idle

NextMulti == Dispatch \/ GreedyStep \/ GreedyReturn

SpecMulti == InitMulti /\ [][NextMulti]_vars

\* ------------------------------------------- distributeAccounts called raw
\* distributeAccounts called on accounts as they come: Segment is optional
\* in Account, so an account may carry either label or none.  The heap
\* strategy and one scanning strategy, refinement enabled; account i lives
\* in RepLocations[i].
LabelledAccounts ==
  {[i \in 1..Len(f) |->
      [Account(i, f[i][1], RepLocations[i], MaxEmployees, 90) EXCEPT !.Segment = f[i][2]]] :
     f \in SeqsUpTo((0..(MaxARR - 1)) \X (Segments \cup {Undefined}), MaxAccounts + 2)}

InitLabelled ==
  /\ rawAccounts \in LabelledAccounts
  /\ threshold = MaxEmployees
  /\ accounts = rawAccounts
  /\ reps \in RepLists
  /\ strategy \in {PureARRBalance, ARRGeographicClustering}
  /\ config = [enableSwapRefinement |-> TRUE, maxSwapIterations |-> MaxSwapIterations]
  /\ pc = "dispatch"
  /\ idle

SpecLabelled == InitLabelled /\ [][Next]_vars

\* ------------------------------------------------ the documented scenarios
\* The two worked examples of the documentation, the accounts handed over in
\* any order.  PureScenario: ARR in thousands, refinement off (the greedy
\* pass).  RiskScenario: ARR in hundreds of thousands, the default config
\* (refinement on); the objective of ARR + Risk Balance is quadratic in ARR
\* throughout, so the comparison of two costs does not depend on the unit.
PureScenario ==
  [reps |-> <<Rep("A", "NY", Enterprise), Rep("B", "NY", Enterprise),
              Rep("C", "NY", Enterprise)>>,
   accounts |-> <<[ARR |-> 500, Risk_Score |-> 70], [ARR |-> 400, Risk_Score |-> 70],
                  [ARR |-> 300, Risk_Score |-> 70], [ARR |-> 200, Risk_Score |-> 70],
                  [ARR |-> 150, Risk_Score |-> 70], [ARR |-> 100, Risk_Score |-> 70]>>,
   strategy |-> PureARRBalance,
   config |-> [enableSwapRefinement |-> FALSE, maxSwapIterations |-> MaxSwapIterations]]

RiskScenario ==
  [reps |-> <<Rep("Alice", "NY", Enterprise), Rep("Bob", "NY", Enterprise)>>,
   accounts |-> <<[ARR |-> 5, Risk_Score |-> 90], [ARR |-> 4, Risk_Score |-> 85],
                  [ARR |-> 3, Risk_Score |-> 20], [ARR |-> 2, Risk_Score |-> 75]>>,
   strategy |-> ARRRiskBalance,
   config |-> [enableSwapRefinement |-> TRUE, maxSwapIterations |-> MaxSwapIterations]]

Scenarios == {PureScenario, RiskScenario}

orderings(n) == {f \in [1..n -> 1..n] : \A i, j \in 1..n : f[i] = f[j] => i = j}

InitScenario ==
  /\ \E sc \in Scenarios : \E f \in orderings(Len(sc.accounts)) :
       /\ rawAccounts =
            [i \in 1..Len(sc.accounts) |->
               Account(i, sc.accounts[f[i]].ARR, "NY", MaxEmployees,
                       sc.accounts[f[i]].Risk_Score)]
       /\ reps = sc.reps
       /\ strategy = sc.strategy
       /\ config = sc.config
  /\ threshold = MaxEmployees
  /\ accounts = segmentAccounts(rawAccounts, threshold)
  /\ pc = "dispatch"
  /\ idle

NextScenario == Dispatch \/ GreedyStep \/ GreedyReturn \/ SwapReturn

SpecScenario == InitScenario /\ [][NextScenario]_vars

\* ------------------------------------------- distributeAccounts as a function
\* The same code as one evaluation: what a call returns for given arguments.
\* It is built from the operators the actions above use, and is what a
\* claim uses when it compares the run in the state with a second call.
RECURSIVE greedyMap(_, _, _, _, _, _, _)
greedyMap(strat, sorted, rs, as, h, stats, done) ==
  IF Len(done) = Len(sorted) THEN done
  ELSE LET acc == sorted[Len(done) + 1]
       IN IF strat \in {ARRRiskBalance, ARRGeographicClustering, SmartMultiFactor}
          THEN LET step == linearScan(strat, stats, acc, rs, as)
               IN greedyMap(strat, sorted, rs, as, h, step.repStats,
                            Append(done, step.account))
          ELSE LET step == greedyBinPacking(h, acc)
               IN greedyMap(strat, sorted, rs, as, step.heap, stats,
                            Append(done, step.account))

\* The strategy functions: greedyBinPacking, arrRiskBalance,
\* arrGeographyBalance, smartMultiFactor, chosen by the switch of dispatch.
strategyResult(as, rs, strat) ==
  greedyMap(strat, sortedByARRDesc(as), rs, as,
            HeapOfReps(<<>>, rs), initRepStats(rs), <<>>)

RECURSIVE swapLoop(_, _, _, _, _, _)
swapLoop(cur, rs, strat, best, it, max) ==
  IF it < max /\ improvingSwaps(cur, rs, strat, best) # {}
  THEN LET next == applySwap(cur, rs, firstImproving(cur, rs, strat, best))
       IN swapLoop(next, rs, strat, computeTotalCost(next, rs, strat), it + 1, max)
  ELSE cur

swapRefine(as, rs, strat, cfg) ==
  IF Len(rs) < 2 \/ Len(as) < 2 THEN as
  ELSE swapLoop(as, rs, strat, computeTotalCost(as, rs, strat), 0,
                cfg.maxSwapIterations)

dispatch(as, rs, strat, cfg) ==
  IF dispatchGuard(as, rs).returns THEN dispatchGuard(as, rs).value
  ELSE IF cfg.enableSwapRefinement
       THEN swapRefine(strategyResult(as, rs, strat), rs, strat, cfg)
       ELSE strategyResult(as, rs, strat)

distributeAccounts(accs, rs, strat, cfg) ==
  dispatch(poolAccounts(accs, Enterprise), poolReps(rs, Enterprise), strat, cfg)
    \o dispatch(poolAccounts(accs, MidMarket), poolReps(rs, MidMarket), strat, cfg)

\* The step-wise run and the single evaluation return the same array.
StepwiseAgrees ==
  pc = "done" => result = distributeAccounts(accounts, reps, strategy, config)

\* ----------------------------------------------------- calculateRepStats
\* if (acc.Assigned_Rep && ...): undefined and the empty string are falsy.
truthy(s) == s # Undefined /\ s # ""

zeroStat(rep) ==
  [name |-> rep.Rep_Name, location |-> rep.Location, segment |-> rep.Segment,
   count |-> 0, totalARR |-> 0, highRiskCount |-> 0, sameStateCount |-> 0]

\* statsMap is kept as the sequence of its values in insertion order;
\* Map.set on a key already present replaces the value where it stands.
mapSet(m, stat) ==
  IF \E i \in 1..Len(m) : m[i].name = stat.name
  THEN [i \in 1..Len(m) |-> IF m[i].name = stat.name THEN stat ELSE m[i]]
  ELSE Append(m, stat)

\* reps.forEach(rep => statsMap.set(rep.Rep_Name, {...}))
RECURSIVE initStatsMap(_, _)
initStatsMap(m, rs) ==
  IF rs = <<>> THEN m ELSE initStatsMap(mapSet(m, zeroStat(Head(rs))), Tail(rs))

\* A count that takes a score equal to the threshold as high risk.
countsAsHighRiskInclusive(acc, thr) == acc.Risk_Score >= thr

\* acc.Risk_Score > highRiskThreshold
countsAsHighRisk(acc, thr) == acc.Risk_Score > thr

tally(stat, acc, thr) ==
  [stat EXCEPT !.count = @ + 1,
               !.totalARR = @ + acc.ARR,
               !.highRiskCount = @ + (IF countsAsHighRisk(acc, thr) THEN 1 ELSE 0),
               !.sameStateCount = @ + (IF acc.Location = stat.location THEN 1 ELSE 0)]

\* accounts.forEach(acc => { if (acc.Assigned_Rep && statsMap.has(...)) {...} })
RECURSIVE tallyAccounts(_, _, _)
tallyAccounts(m, accs, thr) ==
  IF accs = <<>> THEN m
  ELSE LET acc == Head(accs)
           has == \E i \in 1..Len(m) : m[i].name = acc.Assigned_Rep
           next == IF truthy(acc.Assigned_Rep) /\ has
                   THEN [i \in 1..Len(m) |->
                           IF m[i].name = acc.Assigned_Rep
                           THEN tally(m[i], acc, thr) ELSE m[i]]
                   ELSE m
       IN tallyAccounts(next, Tail(accs), thr)

\* An insertion that puts a stat in front of the stats of equal totalARR.
RECURSIVE insertStatBeforeTies(_, _)
insertStatBeforeTies(sorted, a) ==
  IF sorted = <<>> THEN <<a>>
  ELSE IF Head(sorted).totalARR > a.totalARR
       THEN <<Head(sorted)>> \o insertStatBeforeTies(Tail(sorted), a)
       ELSE <<a>> \o sorted

\* .sort((a, b) => b.totalARR - a.totalARR): stable, largest first.
RECURSIVE insertStat(_, _)
insertStat(sorted, a) ==
  IF sorted = <<>> THEN <<a>>
  ELSE IF Head(sorted).totalARR >= a.totalARR
       THEN <<Head(sorted)>> \o insertStat(Tail(sorted), a)
       ELSE <<a>> \o sorted

RECURSIVE sortStatsFrom(_, _)
sortStatsFrom(sorted, rest) ==
  IF rest = <<>> THEN sorted
  ELSE sortStatsFrom(insertStat(sorted, Head(rest)), Tail(rest))

calculateRepStats(accs, rs, thr) ==
  sortStatsFrom(<<>>, tallyAccounts(initStatsMap(<<>>, rs), accs, thr))

\* A finished account collection handed to calculateRepStats: any ARR, the
\* two profiles, and an Assigned_Rep that is a rep of the dataset, absent,
\* empty, or the name of nobody in the rep list.
AssignedValues == {RepNames[i] : i \in 1..MaxReps} \cup {Undefined, "", "Nobody"}

StatsAccounts ==
  {[i \in 1..Len(f) |->
      [Account(i, f[i][1], f[i][2].Location, MaxEmployees, f[i][2].Risk_Score)
         EXCEPT !.Segment = Enterprise, !.Assigned_Rep = f[i][3]]] :
     f \in SeqsUpTo((0..MaxARR) \X Profiles \X AssignedValues, MaxAccounts)}

\* Rep lists with unique names, in any order.
StatsRepLists ==
  {[i \in 1..Len(f) |-> Rep(RepNames[f[i]], RepLocations[f[i]], Enterprise)] :
     f \in {g \in SeqsUpTo(1..MaxReps, MaxReps) :
              \A i, j \in 1..Len(g) : g[i] = g[j] => i = j}}

\* The default threshold and a custom one.
StatsThresholds == {highRiskThreshold, 90}

InitStats ==
  /\ result \in StatsAccounts
  /\ reps \in StatsRepLists
  /\ statsThreshold \in StatsThresholds
  /\ statsOut = <<>>
  /\ pc = "stats"
  /\ rawAccounts = <<>>
  /\ threshold = MaxEmployees
  /\ accounts = <<>>
  /\ strategy = PureARRBalance
  /\ config = [enableSwapRefinement |-> FALSE, maxSwapIterations |-> 0]
  /\ seg = Enterprise
  /\ heap = <<>>
  /\ repStats = <<>>
  /\ assigned = <<>>
  /\ current = <<>>
  /\ bestCost = 0
  /\ iter = 0
  /\ entResult = <<>>
  /\ store = <<>>
  /\ arrays = noArrays

CalculateRepStats ==
  /\ pc = "stats"
  /\ statsOut' = calculateRepStats(result, reps, statsThreshold)
  /\ pc' = "reported"
  /\ UNCHANGED <<inputs, seg, heap, repStats, assigned, current, bestCost, iter,
                 entResult, result, statsThreshold, objects>>

NextStats == CalculateRepStats

SpecStats == InitStats /\ [][NextStats]_vars

\* ------------------------------------------------- objects and references
\* The same three calls with the objects told apart: store[r] is the object
\* of reference r, an array is a sequence of references.  The caller holds
\* arrays.accounts and arrays.reps, and each array a call has returned.
RECURSIVE valuesOf(_, _)
valuesOf(st, refs) ==
  IF refs = <<>> THEN <<>> ELSE <<st[Head(refs)]>> \o valuesOf(st, Tail(refs))

\* The element of refs that an output record was spread from.
sourcesOf(st, refs, vals) ==
  [i \in 1..Len(vals) |->
     CHOOSE r \in Range(refs) : st[r].Account_ID = vals[i].Account_ID]

\* A map() that writes the new fields on the element itself: a => { a.f = v; return a }
overwrite(st, refs, vals) ==
  [store |-> [r \in 1..Len(st) |->
                IF \E i \in 1..Len(refs) : refs[i] = r
                THEN vals[CHOOSE i \in 1..Len(refs) : refs[i] = r]
                ELSE st[r]],
   refs |-> refs]

\* refs.map(a => ({ ...a, ... })): one new object per element, vals[i] being
\* the spread of store[refs[i]] with the new fields.
allocate(st, refs, vals) ==
  [store |-> st \o vals, refs |-> [i \in 1..Len(vals) |-> Len(st) + i]]

\* current[idx].Assigned_Rep = ... : the writes of swapRefine, on the objects
\* of current themselves.
writeAssignedRep(st, refs, vals) ==
  [r \in 1..Len(st) |->
     IF \E i \in 1..Len(refs) : refs[i] = r
     THEN [st[r] EXCEPT !.Assigned_Rep =
             vals[CHOOSE i \in 1..Len(refs) : refs[i] = r].Assigned_Rep]
     ELSE st[r]]

\* accounts.filter(a => a.Segment === s): a new array of the same objects.
poolRefs(st, refs, s) == SelectSeq(refs, LAMBDA r : st[r].Segment = s)

\* The strategy of one pool (or the guards of dispatch before it): the
\* records it returns are new objects.
spreadObjects(st, refs, vals) == allocate(st, sourcesOf(st, refs, vals), vals)

strategyObjects(st, refs, rs, strat) ==
  spreadObjects(st, refs,
                dispatch(valuesOf(st, refs), rs, strat,
                         [enableSwapRefinement |-> FALSE, maxSwapIterations |-> 0]))

\* The running aggregates of a strategy: { ...r, totalARR: 0, ... } per rep
\* (heap entries { repName, currentARR } in Pure ARR Balance), new objects
\* that the strategy updates as it goes; here with their last values.
aggregateObjects(st, repRefs, vals, strat) ==
  allocate(st, repRefs,
           [i \in 1..Len(repRefs) |->
              IF strat = PureARRBalance
              THEN [repName |-> st[repRefs[i]].Rep_Name,
                    currentARR |-> SumARR(SelectSeq(vals,
                       LAMBDA a : a.Assigned_Rep = st[repRefs[i]].Rep_Name))]
              ELSE [Rep_Name |-> st[repRefs[i]].Rep_Name,
                    Location |-> st[repRefs[i]].Location,
                    Segment |-> st[repRefs[i]].Segment,
                    totalARR |-> SumARR(SelectSeq(vals,
                       LAMBDA a : a.Assigned_Rep = st[repRefs[i]].Rep_Name))]])

\* swapRefine on the array a strategy returned: the array itself when it
\* returns at once, else a copy of every object, swapped in place.
refineObjects(st, refs, rs, strat, cfg) ==
  IF refines(cfg, refs, rs)
  THEN LET copy == allocate(st, refs, valuesOf(st, refs))
           final == swapRefine(valuesOf(st, refs), rs, strat, cfg)
       IN [store |-> writeAssignedRep(copy.store, copy.refs, final),
           refs |-> copy.refs]
  ELSE [store |-> st, refs |-> refs]

\* A dataset whose accounts may carry the labels of an earlier run.
ObjectDatasets ==
  {[i \in 1..Len(f) |->
      [Account(i, (2 * i) % (MaxARR + 1), f[i][1].Location, f[i][2],
               f[i][1].Risk_Score)
         EXCEPT !.Segment = IF f[i][3] THEN MidMarket ELSE Undefined,
                !.Assigned_Rep = IF f[i][3] THEN RepNames[1] ELSE Undefined]] :
     f \in SeqsUpTo(Profiles \X {MaxEmployees - 1, MaxEmployees} \X BOOLEAN,
                    MaxAccounts)}

ObjectConfigs ==
  {[enableSwapRefinement |-> b, maxSwapIterations |-> MaxSwapIterations] :
     b \in BOOLEAN}

InitObjects ==
  /\ rawAccounts \in ObjectDatasets
  /\ reps \in RepLists
  /\ strategy \in DistributionStrategy
  /\ config \in ObjectConfigs
  /\ threshold = MaxEmployees
  /\ store = rawAccounts \o reps
  /\ arrays = [noArrays EXCEPT
                 !.accounts = [i \in 1..Len(rawAccounts) |-> i],
                 !.reps = [i \in 1..Len(reps) |-> Len(rawAccounts) + i]]
  /\ pc = "segmentObjects"
  /\ accounts = <<>>
  /\ seg = Enterprise
  /\ heap = <<>>
  /\ repStats = <<>>
  /\ assigned = <<>>
  /\ current = <<>>
  /\ bestCost = 0
  /\ iter = 0
  /\ entResult = <<>>
  /\ result = <<>>
  /\ statsThreshold = highRiskThreshold
  /\ statsOut = <<>>

working == <<seg, heap, repStats, assigned, current, bestCost, iter, entResult>>
arguments == <<rawAccounts, threshold, reps, strategy, config, statsThreshold>>

\* segmentAccounts(accounts, threshold); the caller keeps the array returned.
SegmentObjects ==
  /\ pc = "segmentObjects"
  /\ LET out == allocate(store, arrays.accounts,
                         segmentAccounts(valuesOf(store, arrays.accounts), threshold))
     IN /\ store' = out.store
        /\ arrays' = [arrays EXCEPT !.segmented = out.refs]
        /\ accounts' = valuesOf(out.store, out.refs)
  /\ pc' = "strategyObjects"
  /\ UNCHANGED <<arguments, working, result, statsOut>>

\* distributeAccounts up to the return of the strategy of each pool.
strategiesReturn(ent, mm) ==
  /\ store' = aggregateObjects(mm.store, arrays.reps,
                               valuesOf(mm.store, ent.refs \o mm.refs), strategy).store
  /\ arrays' = [arrays EXCEPT !.entResult = ent.refs, !.mmResult = mm.refs]

strategyOfMidMarket(ent) ==
  strategiesReturn(ent,
                   strategyObjects(ent.store, poolRefs(store, arrays.segmented, MidMarket),
                                   poolReps(reps, MidMarket), strategy))

StrategyObjects ==
  /\ pc = "strategyObjects"
  /\ strategyOfMidMarket(
       strategyObjects(store, poolRefs(store, arrays.segmented, Enterprise),
                       poolReps(reps, Enterprise), strategy))
  /\ pc' = "refineObjects"
  /\ UNCHANGED <<arguments, working, accounts, result, statsOut>>

\* swapRefine on each pool, and the return of distributeAccounts.
distributeReturns(ent, mm) ==
  /\ store' = mm.store
  /\ arrays' = [arrays EXCEPT !.entResult = ent.refs, !.mmResult = mm.refs,
                              !.distributed = ent.refs \o mm.refs]
  /\ result' = valuesOf(mm.store, ent.refs \o mm.refs)

refineOfMidMarket(ent) ==
  distributeReturns(ent,
                    refineObjects(ent.store, arrays.mmResult, poolReps(reps, MidMarket),
                                  strategy, config))

RefineObjects ==
  /\ pc = "refineObjects"
  /\ refineOfMidMarket(
       refineObjects(store, arrays.entResult, poolReps(reps, Enterprise),
                     strategy, config))
  /\ pc' = "statsObjects"
  /\ UNCHANGED <<arguments, working, accounts, statsOut>>

\* calculateRepStats(result, reps): the stats are new objects.
StatsObjects ==
  /\ pc = "statsObjects"
  /\ LET out == calculateRepStats(valuesOf(store, arrays.distributed),
                                  valuesOf(store, arrays.reps), statsThreshold)
     IN /\ statsOut' = out
        /\ store' = store \o out
        /\ arrays' = [arrays EXCEPT
                        !.stats = [i \in 1..Len(out) |-> Len(store) + i]]
  /\ pc' = "objectsDone"
  /\ UNCHANGED <<arguments, working, accounts, result>>

NextObjects == SegmentObjects \/ StrategyObjects \/ RefineObjects \/ StatsObjects

SpecObjects == InitObjects /\ [][NextObjects]_vars

\* The records returned are those of the run on values.
ObjectsAgree ==
  pc \in {"statsObjects", "objectsDone"} =>
    result = distributeAccounts(accounts, reps, strategy, config)
\* ================================================================ claims
repNamesOf(rs) == {r.Rep_Name : r \in Range(rs)}
inputAccount(id) == CHOOSE a \in Range(accounts) : a.Account_ID = id
occurrences(accs, id) == Cardinality({i \in 1..Len(accs) : accs[i].Account_ID = id})
ofSegment(accs, s) == SelectSeq(accs, LAMBDA a : a.Segment = s)
swapKept == pc = "done" /\ iter > 0

isolated(accs) ==
  \A a \in Range(accs) :
    a.Assigned_Rep # Undefined =>
      \E r \in Range(reps) : r.Rep_Name = a.Assigned_Rep /\ r.Segment = a.Segment

\* C1: segment isolation.  In every state (during the greedy pass, after
\* every swap kept by swapRefine, and in the returned array) every account
\* that has an Assigned_Rep is assigned to a rep whose Segment equals the
\* account's Segment.
C1_SegmentIsolation ==
  isolated(assigned) /\ isolated(current) /\ isolated(entResult) /\ isolated(result)

\* A returned array in which both segments have a rep and an assigned
\* account.
C1_Witness ==
  /\ pc = "done"
  /\ \A s \in Segments :
       /\ \E r \in Range(reps) : r.Segment = s
       /\ \E a \in Range(result) : a.Segment = s /\ a.Assigned_Rep # Undefined

sameARR(accs) == \A a \in Range(accs) : a.ARR = inputAccount(a.Account_ID).ARR

C5_EveryAccountAssigned ==
  pc = "done" =>
    \A a \in Range(result) :
      IF Len(poolReps(reps, a.Segment)) > 0
      THEN a.Assigned_Rep \in repNamesOf(poolReps(reps, a.Segment))
      ELSE a.Assigned_Rep = Undefined

\* A returned array that holds an assigned zero-ARR account.
C5_Witness ==
  /\ pc = "done"
  /\ \E a \in Range(result) : a.ARR = 0 /\ a.Assigned_Rep # Undefined
  /\ \E a \in Range(result) : a.ARR > 0 /\ a.Assigned_Rep # Undefined

\* C6: degenerate pools are not errors.  A segment without reps has every
\* one of its accounts returned, in input order, with no Assigned_Rep; a
\* segment without accounts contributes nothing; an empty input gives an
\* empty result.  (An exception of the code is an evaluation error here:
\* pop() on an empty heap, reps[0] of an empty pool.)
C6_DegeneratePools ==
  pc = "done" =>
    /\ \A s \in Segments :
         /\ Len(poolReps(reps, s)) = 0 =>
              /\ [i \in 1..Len(ofSegment(result, s)) |-> ofSegment(result, s)[i].Account_ID]
                   = [i \in 1..Len(ofSegment(accounts, s)) |-> ofSegment(accounts, s)[i].Account_ID]
              /\ \A a \in Range(ofSegment(result, s)) : a.Assigned_Rep = Undefined
         /\ Len(ofSegment(accounts, s)) = 0 => Len(ofSegment(result, s)) = 0
    /\ accounts = <<>> => result = <<>>

\* A call with accounts in a segment that has no rep while the other
\* segment has reps and no account.
C6_Witness ==
  /\ pc = "done"
  /\ \E s, t \in Segments :
       /\ Len(poolReps(reps, s)) = 0
       /\ Len(ofSegment(accounts, s)) >= 2
       /\ Len(poolReps(reps, t)) > 0
       /\ Len(ofSegment(accounts, t)) = 0

\* C7: segmentAccounts labels an account Enterprise exactly when
\* Num_Employees >= threshold and Mid Market otherwise, keeps length and
\* order, and leaves every other field as it was.
C7_SegmentAccounts ==
  pc = "segmented" =>
    /\ Len(accounts) = Len(rawAccounts)
    /\ \A i \in 1..Len(accounts) :
         /\ accounts[i].Segment = Enterprise <=> rawAccounts[i].Num_Employees >= threshold
         /\ accounts[i].Segment = MidMarket <=> rawAccounts[i].Num_Employees < threshold
         /\ \A fld \in DOMAIN rawAccounts[i] \ {"Segment"} :
              accounts[i][fld] = rawAccounts[i][fld]
         /\ DOMAIN accounts[i] = DOMAIN rawAccounts[i]

\* A segmented dataset with an account exactly at the threshold, one below
\* and one above it.
C7_Witness ==
  /\ pc = "segmented"
  /\ \E i, j, k \in 1..Len(accounts) :
       /\ rawAccounts[i].Num_Employees = threshold
       /\ rawAccounts[j].Num_Employees < threshold
       /\ rawAccounts[k].Num_Employees > threshold

\* Per-rep total ARR of an assignment, and its extremes over a pool.
loadOf(accs, name) == SumARR(SelectSeq(accs, LAMBDA a : a.Assigned_Rep = name))
loads(accs, rs) == {loadOf(accs, r.Rep_Name) : r \in Range(rs)}
maxLoad(accs, rs) == CHOOSE m \in loads(accs, rs) : \A x \in loads(accs, rs) : x <= m
minLoad(accs, rs) == CHOOSE m \in loads(accs, rs) : \A x \in loads(accs, rs) : m <= x
largestARR(accs) == CHOOSE m \in {a.ARR : a \in Range(accs)} : \A a \in Range(accs) : a.ARR <= m

\* The account the greedy pass places next, the rep the code gives it to,
\* and the cost (scaled as greedyCost) the strategy sees for rep i of the pool.
placing == pc = "greedy" /\ Len(assigned) < Len(sortedAccounts)
nextAccount == sortedAccounts[Len(assigned) + 1]
chosenRep ==
  IF usesLinearScan
  THEN linearScan(strategy, repStats, nextAccount, segReps, accts).account.Assigned_Rep
  ELSE greedyBinPacking(heap, nextAccount).account.Assigned_Rep
costOfRep(i) ==
  IF usesLinearScan
  THEN greedyCost(strategy, nextAccount, segReps[i], repStats[segReps[i].Rep_Name],
                  Len(accts), Len(segReps), SumARR(accts))
  ELSE loadOf(assigned, segReps[i].Rep_Name)
cheapestReps == {i \in 1..Len(segReps) : \A j \in 1..Len(segReps) : costOfRep(i) <= costOfRep(j)}
firstCheapest == CHOOSE i \in cheapestReps : \A j \in cheapestReps : i <= j

\* C8: tie-break.  In every greedy strategy, Pure ARR Balance with its
\* min-heap included, the account being placed goes to the first rep, in
\* the order of the pool, among the reps of minimum cost.
C8_TieBreakFirstInPoolOrder ==
  placing => chosenRep = segReps[firstCheapest].Rep_Name

\* The same rule for the three strategies that scan the pool.
C8_LinearScanFirstInPoolOrder ==
  placing /\ usesLinearScan => chosenRep = segReps[firstCheapest].Rep_Name

\* The greedy pass of Pure ARR Balance over a pool of k >= 2 reps is over.
pureGreedyDone ==
  /\ pc = "greedy"
  /\ strategy = PureARRBalance
  /\ Len(assigned) = Len(sortedAccounts)
  /\ Len(segReps) >= 2

\* distributeAccounts has returned for Pure ARR Balance; pool s has k >= 2 reps
\* and at least one account.
purePool(s) ==
  /\ pc = "done"
  /\ strategy = PureARRBalance
  /\ Len(poolReps(reps, s)) >= 2
  /\ Len(ofSegment(result, s)) >= 1

assignmentMax(accs, k, f) ==
  LET tot(r) == SumARR(SelectSeq([i \in 1..Len(accs) |-> [pos |-> i, ARR |-> accs[i].ARR]],
                                 LAMBDA x : f[x.pos] = r))
  IN CHOOSE m \in {tot(r) : r \in 1..k} : \A r \in 1..k : tot(r) <= m
optimalMax(accs, k) ==
  LET all == {assignmentMax(accs, k, f) : f \in [1..Len(accs) -> 1..k]}
  IN CHOOSE m \in all : \A x \in all : m <= x

RECURSIVE spreadFrom(_, _, _)
spreadFrom(accs, rs, i) ==
  IF i > Len(rs) THEN 0
  ELSE LET d == Len(rs) * loadOf(accs, rs[i].Rep_Name) - SumARR(accs)
       IN d * d + spreadFrom(accs, rs, i + 1)
spread(accs, rs) == spreadFrom(accs, rs, 1)

\* stdDev(a) <= stdDev(b) + 1 for the per-rep totals of assignments a and b
\* of one pool: with A = spread(a), B = spread(b), C = k^3 this is
\* sqrt(A) <= sqrt(B) + sqrt(C), i.e. A <= B + C or (A - B - C)^2 <= 4BC.
stdDevWithinOne(a, b, rs) ==
  LET A == spread(a, rs)
      B == spread(b, rs)
      C == Len(rs) * Len(rs) * Len(rs)
  IN \/ A <= B + C
     \/ (A - B - C) * (A - B - C) <= 4 * B * C

\* C11: refinement non-regression.  For every strategy the standard
\* deviation of the per-rep total ARR of a pool after swap refinement is at
\* most that of the greedy result (what enableSwapRefinement = false
\* returns), with the tolerance of 1 the test suite allows.
C11_RefinementNonRegression ==
  pc = "swap" => stdDevWithinOne(current, assigned, segReps)
\* The greedy result of the Enterprise pool can be improved by a swap.
greedyImprovable ==
  LET rs == poolReps(reps, Enterprise)
      g == strategyResult(poolAccounts(accounts, Enterprise), rs, strategy)
  IN /\ Len(rs) >= 2
     /\ Len(g) >= 2
     /\ improvingSwaps(g, rs, strategy, computeTotalCost(g, rs, strategy)) # {}

\* C12: maxSwapIterations = 0 is equivalent to disabling refinement.  With
\* enableSwapRefinement = true and maxSwapIterations = 0 distributeAccounts
\* returns the array it returns with enableSwapRefinement = false: the same
\* accounts in the same order with the same Assigned_Rep.
C12_ZeroIterationsIsDisabled ==
  pc = "done" /\ config.enableSwapRefinement /\ config.maxSwapIterations = 0 =>
    result = distributeAccounts(accounts, reps, strategy,
                                [config EXCEPT !.enableSwapRefinement = FALSE])

\* A call with maxSwapIterations = 0 has returned for a pool whose greedy
\* result a swap would improve.
C12_Witness ==
  /\ pc = "done"
  /\ config.enableSwapRefinement
  /\ config.maxSwapIterations = 0
  /\ greedyImprovable
\* accs with the reps of accounts i and j exchanged.
exchanged(accs, i, j) ==
  [accs EXCEPT ![i].Assigned_Rep = accs[j].Assigned_Rep,
               ![j].Assigned_Rep = accs[i].Assigned_Rep]

\* No two accounts held by two different reps of the pool can be exchanged
\* with computeTotalCost falling by more than 0.01.
localOptimum(accs, rs, strat) ==
  \A i, j \in 1..Len(accs) :
    /\ accs[i].Assigned_Rep \in repNamesOf(rs)
    /\ accs[j].Assigned_Rep \in repNamesOf(rs)
    /\ accs[i].Assigned_Rep # accs[j].Assigned_Rep
    => ~(computeTotalCost(exchanged(accs, i, j), rs, strat)
           < computeTotalCost(accs, rs, strat) - epsilon(accs, rs))

\* swapRefine returns: the step that leaves the loop.
swapRefineReturns == pc = "swap" /\ pc' # "swap"

\* C13 as stated: whenever swapRefine returns, the assignment it returns is
\* a local optimum of the objective.
C13_LocalOptimumOnReturn ==
  [][swapRefineReturns => localOptimum(current, segReps, strategy)]_vars

\* C13 amended: when swapRefine returns after fewer than maxSwapIterations
\* kept swaps, that is on a pass that found no improving swap, the
\* assignment it returns is a local optimum of the objective.
C13_LocalOptimumWhenConverged ==
  [][swapRefineReturns /\ iter < config.maxSwapIterations
       => localOptimum(current, segReps, strategy)]_vars

\* swapRefine has returned a local optimum after keeping a swap and before
\* the iteration cap.
C13_Witness ==
  /\ swapKept
  /\ iter < config.maxSwapIterations
  /\ localOptimum(result, poolReps(reps, Enterprise), strategy)
\* next is cur after exactly one swap between two reps.
oneSwap(cur, next) ==
  \E i, j \in 1..Len(cur) :
    /\ cur[i].Assigned_Rep # cur[j].Assigned_Rep
    /\ next = exchanged(cur, i, j)

\* C14: refinement terminates.  The iteration count never exceeds
\* maxSwapIterations; a pass that stays in the loop keeps exactly one swap
\* and counts one iteration, and is run only while an improving swap
\* exists; swapRefine returns, with the assignment of the last pass, when
\* the cap is reached or at the first pass without an improving swap.
C14_RefinementTerminates ==
  [][/\ pc' = "swap" => iter' <= config.maxSwapIterations
     /\ pc = "swap" /\ pc' = "swap" =>
          /\ iter' = iter + 1
          /\ oneSwap(current, current')
          /\ ~localOptimum(current, segReps, strategy)
     /\ pc = "swap" /\ pc' # "swap" =>
          /\ current' = current
          /\ iter = config.maxSwapIterations
               \/ localOptimum(current, segReps, strategy)]_vars

\* swapRefine has returned on the iteration cap after keeping a swap.
C14_Witness ==
  /\ swapKept
  /\ iter = config.maxSwapIterations
\* The accounts with every ARR multiplied by c, and the rep an output gives
\* to the account with a given id.
MaxScale == 2
scaledARR(accs, c) == [i \in 1..Len(accs) |-> [accs[i] EXCEPT !.ARR = @ * c]]
repOf(accs, id) == (CHOOSE a \in Range(accs) : a.Account_ID = id).Assigned_Rep

\* C15: dataset-scale independence.  For every strategy and config,
\* multiplying the ARR of every account by the same positive constant
\* leaves the Assigned_Rep of every account in the output unchanged.
C15_ScaleIndependence ==
  pc = "done" =>
    \A c \in 2..MaxScale :
      \A a \in Range(accounts) :
        repOf(distributeAccounts(scaledARR(accounts, c), reps, strategy, config),
              a.Account_ID)
          = repOf(result, a.Account_ID)

\* The same with refinement disabled: the greedy pass alone.
C15_GreedyScaleIndependence ==
  pc = "done" /\ ~config.enableSwapRefinement => C15_ScaleIndependence
\* The greedy pass so far follows a documented order of (ARR, rep) steps.
follows(steps) ==
  /\ Len(assigned) <= Len(steps)
  /\ \A i \in 1..Len(assigned) :
       /\ assigned[i].ARR = steps[i][1]
       /\ assigned[i].Assigned_Rep = steps[i][2]

inPureScenario == reps = PureScenario.reps
inRiskScenario == reps = RiskScenario.reps

\* C16: the Pure ARR Balance walk-through.  With reps A, B, C and accounts
\* of ARR 500, 400, 300, 200, 150, 100 (thousands) the greedy pass gives 500
\* to A, 400 to B, 300 to C, 200 to C, 150 to B, 100 to A, and ends with
\* A = 600, B = 550, C = 500.
C16_PureScenario ==
  inPureScenario =>
    /\ pc = "greedy" =>
         follows(<<<<500, "A">>, <<400, "B">>, <<300, "C">>,
                   <<200, "C">>, <<150, "B">>, <<100, "A">>>>)
    /\ pc = "done" =>
         /\ loadOf(result, "A") = 600
         /\ loadOf(result, "B") = 550
         /\ loadOf(result, "C") = 500

\* What the code does in the scenario of C16.
C16_PureScenarioAsCoded ==
  inPureScenario =>
    /\ pc = "greedy" =>
         follows(<<<<500, "A">>, <<400, "C">>, <<300, "B">>,
                   <<200, "B">>, <<150, "C">>, <<100, "B">>>>)
    /\ pc = "done" =>
         /\ loadOf(result, "A") = 500
         /\ loadOf(result, "B") = 600
         /\ loadOf(result, "C") = 550
\* No exchange of two accounts between two reps lowers computeTotalCost at
\* all (whatever the unit of ARR, hence whatever the 0.01 tolerance means).
noCheaperExchange(accs, rs, strat) ==
  \A i, j \in 1..Len(accs) :
    accs[i].Assigned_Rep # accs[j].Assigned_Rep
    => computeTotalCost(exchanged(accs, i, j), rs, strat)
         >= computeTotalCost(accs, rs, strat)

holdsHighRisk(accs, name) ==
  \E a \in Range(accs) : a.Assigned_Rep = name /\ isHighRisk(a)

\* C17: the ARR + Risk Balance walk-through.  With reps Alice, Bob, the
\* default config and accounts (5, risk 90), (4, risk 85), (3, risk 20),
\* (2, risk 75) in hundreds of thousands, the greedy pass gives the first to
\* Alice, the second to Bob, the third to Bob, the fourth to Alice;
\* refinement finds nothing to exchange, and the returned assignment has both
\* reps at 7 with a high-risk account each.
C17_RiskScenario ==
  inRiskScenario =>
    /\ pc \in {"greedy", "swap", "done"} =>
         follows(<<<<5, "Alice">>, <<4, "Bob">>, <<3, "Bob">>, <<2, "Alice">>>>)
    /\ pc = "swap" => iter = 0 /\ noCheaperExchange(current, segReps, strategy)
    /\ pc = "done" =>
         /\ loadOf(result, "Alice") = 7
         /\ loadOf(result, "Bob") = 7
         /\ holdsHighRisk(result, "Alice")
         /\ holdsHighRisk(result, "Bob")
         /\ \A a \in Range(accounts) :
              repOf(result, a.Account_ID) = repOf(assigned, a.Account_ID)

C17_Witness ==
  /\ inRiskScenario
  /\ pc = "done"
  /\ Len(result) = 4
  /\ holdsHighRisk(result, "Alice")
  /\ holdsHighRisk(result, "Bob")
\* The accounts of a finished collection that refer to the rep by name.
accountsOf(accs, name) == SelectSeq(accs, LAMBDA a : a.Assigned_Rep = name)
statOf(name) == CHOOSE st \in Range(statsOut) : st.name = name
countWhere(accs, P(_)) == Cardinality({i \in 1..Len(accs) : P(accs[i])})

\* C18: calculateRepStats returns one RepStats per rep, with count the
\* number of accounts whose Assigned_Rep is the rep's name, totalARR the sum
\* of their ARR, highRiskCount the number of them whose Risk_Score is
\* strictly above the threshold, sameStateCount the number of them at the
\* rep's Location; accounts with an absent or unrecognized Assigned_Rep are
\* counted for nobody.
C18_RepStatsFields ==
  pc = "reported" =>
    /\ Len(statsOut) = Len(reps)
    /\ \A r \in Range(reps) :
         /\ Cardinality({i \in 1..Len(statsOut) : statsOut[i].name = r.Rep_Name}) = 1
         /\ LET st == statOf(r.Rep_Name)
                own == accountsOf(result, r.Rep_Name)
            IN /\ st.location = r.Location
               /\ st.segment = r.Segment
               /\ st.count = Len(own)
               /\ st.totalARR = SumARR(own)
               /\ st.highRiskCount =
                    countWhere(own, LAMBDA a : a.Risk_Score > statsThreshold)
               /\ st.sameStateCount =
                    countWhere(own, LAMBDA a : a.Location = r.Location)

\* A rep with an account exactly at the threshold and one above it, beside
\* accounts that refer to nobody in the rep list.
C18_Witness ==
  /\ pc = "reported"
  /\ \E a \in Range(result) : a.Assigned_Rep = Undefined
  /\ \E a \in Range(result) : a.Assigned_Rep = "Nobody"
  /\ \E st \in Range(statsOut) :
       /\ st.count = 1
       /\ st.highRiskCount = 0
       /\ \E a \in Range(result) :
            a.Assigned_Rep = st.name /\ a.Risk_Score = statsThreshold
\* Position of the rep of that name in the reps input.
repPosition(name) == CHOOSE i \in 1..Len(reps) : reps[i].Rep_Name = name

\* C19: the list returned by calculateRepStats is ordered by totalARR,
\* largest first, and reps of equal totalARR keep the relative order they
\* have in the reps input.
C19_StatsOrder ==
  pc = "reported" =>
    \A i, j \in 1..Len(statsOut) :
      i < j =>
        /\ statsOut[i].totalARR >= statsOut[j].totalARR
        /\ statsOut[i].totalARR = statsOut[j].totalARR
             => repPosition(statsOut[i].name) < repPosition(statsOut[j].name)

\* Two reps tied at a positive totalARR, the reps given in the order R2, R1.
C19_Witness ==
  /\ pc = "reported"
  /\ Len(statsOut) = 2
  /\ statsOut[1].totalARR = statsOut[2].totalARR
  /\ statsOut[1].totalARR > 0
  /\ reps[1].Rep_Name = RepNames[2]
  /\ statsOut[1].name = RepNames[2]

\* The second rep of the input ahead of the first on a larger totalARR.
C19_WitnessReordered ==
  /\ pc = "reported"
  /\ Len(statsOut) = 2
  /\ statsOut[1].name = reps[2].Rep_Name
  /\ statsOut[1].totalARR > statsOut[2].totalARR
segmentReturned == pc \in {"strategyObjects", "refineObjects", "statsObjects", "objectsDone"}
distributeReturned == pc \in {"statsObjects", "objectsDone"}

\* C20: no caller-owned data is mutated.  rawAccounts, reps, accounts and
\* result are the records as they were when the caller passed them or
\* received them; the objects the caller holds still have exactly these
\* values after every call, and the caller's arrays hold the same objects
\* in the same order.
C20_CallerDataUnchanged ==
  pc \in {"segmentObjects"} \/ segmentReturned =>
    /\ arrays.accounts = [i \in 1..Len(rawAccounts) |-> i]
    /\ arrays.reps = [i \in 1..Len(reps) |-> Len(rawAccounts) + i]
    /\ valuesOf(store, arrays.accounts) = rawAccounts
    /\ valuesOf(store, arrays.reps) = reps
    /\ segmentReturned => valuesOf(store, arrays.segmented) = accounts
    /\ distributeReturned => valuesOf(store, arrays.distributed) = result

\* A whole run on a dataset with labels of an earlier run, in which
\* swapRefine kept a swap: it wrote Assigned_Rep on objects.
C20_Witness ==
  /\ pc = "objectsDone"
  /\ \E a \in Range(rawAccounts) :
       a.Segment = MidMarket /\ a.Assigned_Rep = RepNames[1]
  /\ \E i \in 1..Len(result) :
       /\ result[i].Segment = Enterprise
       /\ result[i].Assigned_Rep = RepNames[2]
  /\ result # distributeAccounts(accounts, reps, strategy,
                                 [config EXCEPT !.enableSwapRefinement = FALSE])
repsOfSegment(rs, s) == SelectSeq(rs, LAMBDA r : r.Segment = s)

\* C21: the pools are processed independently.  What distributeAccounts
\* returns for the accounts of a segment is what it returns when the
\* accounts and the reps of the other segment are taken out of the input;
\* so two inputs that differ only in the other segment give every account
\* of this segment the same Assigned_Rep.
C21_PoolsIndependent ==
  pc = "done" =>
    \A s \in Segments :
      ofSegment(result, s)
        = distributeAccounts(ofSegment(accounts, s), repsOfSegment(reps, s),
                             strategy, config)

\* A pool of two reps sharing at least two accounts, beside another pool
\* that has a rep and an account of its own.
C21_Witness ==
  /\ pc = "done"
  /\ \E s, t \in Segments :
       /\ s # t
       /\ Len(poolReps(reps, s)) = 2
       /\ \E a, b \in Range(ofSegment(result, s)) :
            a.Assigned_Rep # b.Assigned_Rep
       /\ \E a \in Range(ofSegment(result, t)) : a.Assigned_Rep # Undefined
countOf(accs, name) == Len(SelectSeq(accs, LAMBDA a : a.Assigned_Rep = name))
sameARR_all(accs) == \A a, b \in Range(accs) : a.ARR = b.ARR
countsWithinOne(accs, rs) ==
  \A r, q \in Range(rs) : countOf(accs, r.Rep_Name) <= countOf(accs, q.Rep_Name) + 1

recounted(rep) ==
  LET mine == SelectSeq(assigned, LAMBDA a : a.Assigned_Rep = rep.Rep_Name)
  IN [Location |-> rep.Location,
      totalARR |-> SumARR(mine),
      count |-> Len(mine),
      highRiskCount |->
        IF strategy = ARRGeographicClustering THEN 0
        ELSE Len(SelectSeq(mine, LAMBDA a : a.Risk_Score > highRiskThreshold)),
      sameStateCount |->
        IF strategy = ARRRiskBalance THEN 0
        ELSE Len(SelectSeq(mine, LAMBDA a : a.Location = rep.Location))]

\* The cost of rep i for the account being placed, times 100 * k, from the
\* recounted aggregates: accumulated ARR for Pure ARR Balance, accumulated
\* ARR minus avgARRPerRep * geoBonusPct / 100 on a location match for ARR +
\* Geographic Clustering, the strategy's own cost for the other two.
costAtThisMoment(i) ==
  LET rep == segReps[i]
      k == Len(segReps)
      T == SumARR(accts)
  IN CASE strategy = PureARRBalance -> recounted(rep).totalARR * 100 * k
       [] strategy = ARRGeographicClustering ->
            recounted(rep).totalARR * 100 * k
              - (IF nextAccount.Location = rep.Location THEN T * geoBonusPct ELSE 0)
       [] OTHER -> greedyCost(strategy, nextAccount, rep, recounted(rep),
                              Len(accts), k, T)

\* C23: each greedy step is cost-minimal.  In every strategy the account
\* being placed goes to a rep whose cost at that moment is at most the cost
\* of every other rep of the pool, and the running aggregates are those of
\* the accounts placed so far: the winner's were updated before this step.
C23_GreedyStepCostMinimal ==
  placing =>
    /\ \E i \in 1..Len(segReps) :
         /\ segReps[i].Rep_Name = chosenRep
         /\ \A j \in 1..Len(segReps) : costAtThisMoment(i) <= costAtThisMoment(j)
    /\ usesLinearScan =>
         \A r \in Range(segReps) : repStats[r.Rep_Name] = recounted(r)
    /\ ~usesLinearScan =>
         \A r \in Range(segReps) :
           \E e \in Range(heap) :
             /\ e.value.repName = r.Rep_Name
             /\ e.key = recounted(r).totalARR
             /\ e.value.currentARR = recounted(r).totalARR

\* The last account of a pool of three reps is being placed, the reps
\* differ in cost, and the cheapest is not the first of the pool.
C23_Witness ==
  /\ placing
  /\ Len(segReps) = 3
  /\ Len(assigned) = 2
  /\ chosenRep # segReps[1].Rep_Name
  /\ \E i, j \in 1..3 : costAtThisMoment(i) < costAtThisMoment(j)
  /\ strategy # PureARRBalance
\* The cost of a rep for the account being placed without any risk term,
\* times 100 * k.
costWithoutRisk(rep) ==
  LET st == repStats[rep.Rep_Name]
      n == Len(accts)
      k == Len(segReps)
      T == SumARR(accts)
  IN st.totalARR * 100 * k
       + (IF strategy = SmartMultiFactor
          THEN (IF st.count * 10 * k > 11 * n THEN T * workloadPenaltyPct ELSE 0)
                 - (IF nextAccount.Location = rep.Location THEN T * multiGeoBonusPct ELSE 0)
          ELSE 0)

\* The risk adjustment the rule grants, times 100 * k, the high-risk
\* fraction compared in hundredths.
adjustmentDue(rep) ==
  LET st == repStats[rep.Rep_Name]
      T == SumARR(accts)
      penaltyPct == IF strategy = SmartMultiFactor THEN multiRiskPenaltyPct ELSE riskPenaltyPct
      bonusPct == IF strategy = SmartMultiFactor THEN multiRiskBonusPct ELSE riskBonusPct
  IN IF nextAccount.Risk_Score <= highRiskThreshold \/ st.count < 1 THEN 0
     ELSE IF 100 * st.highRiskCount > 40 * st.count THEN T * penaltyPct
     ELSE IF 100 * st.highRiskCount < 20 * st.count THEN 0 - T * bonusPct
     ELSE 0

riskAware == strategy \in {ARRRiskBalance, SmartMultiFactor}

costNow(rep) ==
  greedyCost(strategy, nextAccount, rep, repStats[rep.Rep_Name],
             Len(accts), Len(segReps), SumARR(accts))

\* C24: the risk dead-zone rule.  Under ARR + Risk Balance and Smart
\* Multi-Factor a rep's cost carries a risk adjustment only for an account
\* strictly above highRiskThreshold and a rep that already has an account:
\* the penalty iff the rep's high-risk fraction is strictly above 0.40, the
\* bonus iff strictly below 0.20, nothing from 0.20 to 0.40 inclusive, and
\* nothing for a rep's first account.
C24_RiskDeadZone ==
  placing /\ riskAware =>
    \A rep \in Range(segReps) :
      /\ costNow(rep) = costWithoutRisk(rep) + adjustmentDue(rep)
      /\ repStats[rep.Rep_Name].count = 0 => costNow(rep) = costWithoutRisk(rep)

\* A high-risk account is being placed while one rep stands at exactly 2/5
\* and the pool has ARR, so that penalty and bonus are not zero.
C24_Witness ==
  /\ placing /\ riskAware
  /\ nextAccount.Risk_Score > highRiskThreshold
  /\ SumARR(accts) > 0
  /\ \E rep \in Range(segReps) :
       /\ repStats[rep.Rep_Name].count = 5
       /\ repStats[rep.Rep_Name].highRiskCount = 2
\* The pool being distributed, taken afresh from the inputs.
wholePool == ofSegment(accounts, seg)

wholePoolReps == repsOfSegment(reps, seg)

\* The four terms of the Smart Multi-Factor cost of a rep for the account
\* being placed, each times 100 * k: avgARRPerRep = T / k and the target
\* count n / k come from the whole pool, whatever has been placed so far.
accumulatedTerm(rep) == recounted(rep).totalARR * 100 * Len(wholePoolReps)

workloadTerm(rep) ==
  IF 100 * Len(wholePoolReps) * recounted(rep).count > 110 * Len(wholePool)
  THEN SumARR(wholePool) * workloadPenaltyPct ELSE 0

geoTerm(rep) ==
  IF nextAccount.Location = rep.Location
  THEN SumARR(wholePool) * multiGeoBonusPct ELSE 0

\* C25: the Smart Multi-Factor cost is the sum of four terms: accumulated
\* ARR, plus the workload penalty iff the rep's count is strictly above
\* 1.1 * (accounts in pool / reps in pool), minus the geography bonus iff
\* the locations are equal, plus or minus the risk adjustment with the
\* multi-factor percentages; avgARRPerRep and the target count are those of
\* the whole pool at every step of the pass.
C25_MultiFactorAdditive ==
  placing /\ strategy = SmartMultiFactor =>
    \A rep \in Range(segReps) :
      costNow(rep) = accumulatedTerm(rep) + workloadTerm(rep) - geoTerm(rep)
                       + adjustmentDue(rep)

\* Late in a pass over a pool with ARR, one rep of two is over 1.1 times
\* the target count and not in the account's location, the other is in it,
\* and the account is high-risk.
C25_Witness ==
  /\ placing /\ strategy = SmartMultiFactor
  /\ Len(segReps) = 2
  /\ SumARR(accts) > 0
  /\ nextAccount.Risk_Score > highRiskThreshold
  /\ \E a, b \in Range(segReps) :
       /\ workloadTerm(a) > 0 /\ geoTerm(a) = 0
       /\ workloadTerm(b) = 0 /\ geoTerm(b) > 0
       /\ adjustmentDue(a) # adjustmentDue(b)
\* Every entry's key is at least its parent's key.
heapOrdered(h) == \A i \in 2..Len(h) : h[i \div 2].key <= h[i].key

entryCount(h, e) == Len(SelectSeq(h, LAMBDA x : x = e))

\* h2 holds the entries of h1 and n more of e (n = -1: one fewer).
differByEntry(h1, h2, e, n) ==
  /\ Len(h2) = Len(h1) + n
  /\ \A x \in Range(h1) \cup Range(h2) \cup {e} :
       entryCount(h2, x) = entryCount(h1, x) + (IF x = e THEN n ELSE 0)

\* C26: the heap order survives any sequence of push and pop.  Every
\* entry's key is at least its parent's; pop returns and removes one entry
\* whose key is the least present, and on an empty heap returns undefined
\* and leaves it empty; push adds exactly one entry; and between the steps
\* of greedyBinPacking the heap holds exactly one entry per rep whose key is
\* that rep's accumulated ARR.
C26_HeapOrderKept ==
  /\ heapOrdered(heap)
  /\ LET popped == HeapPop(heap)
     IN IF heap = <<>>
        THEN popped.top = Undefined /\ popped.heap = <<>>
        ELSE /\ popped.top \in Range(heap)
             /\ \A e \in Range(heap) : popped.top.key <= e.key
             /\ differByEntry(heap, popped.heap, popped.top, 0 - 1)
             /\ heapOrdered(popped.heap)
  /\ \A value \in HeapValues :
       LET pushed == HeapPush(heap, value.currentARR, value)
           e == [key |-> value.currentARR, value |-> value]
       IN differByEntry(heap, pushed, e, 1) /\ heapOrdered(pushed)
  /\ pc = "greedy" =>
       /\ Len(heap) = Len(segReps)
       /\ \A r \in Range(segReps) :
            entryCount(heap, [key |-> loadOf(assigned, r.Rep_Name),
                              value |-> [repName |-> r.Rep_Name,
                                         currentARR |-> loadOf(assigned, r.Rep_Name)]]) = 1

\* A full heap on its own whose array is not sorted, with a repeated key:
\* the order kept is the heap order and nothing stronger.
C26_Witness ==
  /\ pc = "heap"
  /\ Len(heap) = MaxHeapSize
  /\ \E i, j \in 1..Len(heap) : i < j /\ heap[i].key > heap[j].key
  /\ \E i, j \in 1..Len(heap) : i # j /\ heap[i].key = heap[j].key
  /\ heap[1].key < heap[Len(heap)].key
\* The global objective of an assignment of the pool being refined.
objective(accs) == computeTotalCost(accs, segReps, strategy)

sameButOwner(accs, base) ==
  /\ Len(accs) = Len(base)
  /\ \A i \in 1..Len(base) :
       [accs[i] EXCEPT !.Assigned_Rep = base[i].Assigned_Rep] = base[i]

sameCounts(accs, base, rs) ==
  \A r \in Range(rs) : countOf(accs, r.Rep_Name) = countOf(base, r.Rep_Name)

\* The workload-overage term of the Smart Multi-Factor objective, times
\* (100 * k)^2: (avgARRPerRep * workloadPenaltyPct / 100)^2 for every rep
\* holding more than 1.1 * (accounts / reps) accounts.
workloadOverage(accs, rs) ==
  Cardinality({r \in Range(rs) :
                 10 * Len(rs) * countOf(accs, r.Rep_Name) > 11 * Len(accs)})
    * (SumARR(accs) * workloadPenaltyPct) * (SumARR(accs) * workloadPenaltyPct)

\* What distributeAccounts returns for the same inputs without refinement.
unrefined ==
  distributeAccounts(accounts, reps, strategy,
                     [config EXCEPT !.enableSwapRefinement = FALSE])

\* C28: swap refinement changes only who owns which account.  In every
\* state reached by swapRefine each rep holds as many accounts as after the
\* greedy pass, the accounts are those of the greedy result in the same
\* order, alike in every field but Assigned_Rep, and so is the returned
\* array; hence the workload-overage term of the Smart Multi-Factor
\* objective is the same before and after any swap.
C28_SwapChangesOwnersOnly ==
  /\ pc = "swap" =>
       /\ sameButOwner(current, assigned)
       /\ sameCounts(current, assigned, segReps)
       /\ workloadOverage(current, segReps) = workloadOverage(assigned, segReps)
  /\ pc = "done" =>
       /\ sameButOwner(result, unrefined)
       /\ sameCounts(result, unrefined, reps)

\* Under Smart Multi-Factor a swap has been kept in a pool where one rep
\* holds more than 1.1 times the target count, so that the overage term is
\* not zero.
C28_Witness ==
  /\ pc = "swap"
  /\ iter > 0
  /\ strategy = SmartMultiFactor
  /\ current # assigned
  /\ workloadOverage(current, segReps) > 0
\* The linear scan: each account in turn goes to the first rep, in pool
\* order, among those of lowest accumulated ARR.
firstLowest(placed, rs) ==
  CHOOSE i \in 1..Len(rs) :
    /\ \A j \in 1..Len(rs) : loadOf(placed, rs[i].Rep_Name) <= loadOf(placed, rs[j].Rep_Name)
    /\ \A j \in 1..(i - 1) : loadOf(placed, rs[j].Rep_Name) > loadOf(placed, rs[i].Rep_Name)

RECURSIVE scanPlaced(_, _, _)
scanPlaced(placed, rest, rs) ==
  IF rest = <<>> THEN placed
  ELSE scanPlaced(Append(placed, [Head(rest) EXCEPT
                                    !.Assigned_Rep = rs[firstLowest(placed, rs)].Rep_Name]),
                  Tail(rest), rs)

\* The number of reps whose total ARR is x.
repsWithLoad(accs, rs, x) ==
  Cardinality({i \in 1..Len(rs) : loadOf(accs, rs[i].Rep_Name) = x})

sameLoadMultiset(a, b, rs) ==
  \A x \in loads(a, rs) \cup loads(b, rs) : repsWithLoad(a, rs, x) = repsWithLoad(b, rs, x)

\* The linear scan over the accounts the heap has placed so far.
scannedSoFar == scanPlaced(<<>>, SubSeq(sortedAccounts, 1, Len(assigned)), segReps)

\* C29: heap and linear scan agree on the loads.  At every step of the Pure
\* ARR Balance pass the multiset of per-rep total ARR reached with the
\* min-heap is the multiset reached by the linear scan of the same accounts,
\* even where the two give an account to different tied reps.
C29_HeapAndScanSameLoads ==
  pc = "greedy" /\ strategy = PureARRBalance /\ Len(segReps) > 0 =>
    sameLoadMultiset(assigned, scannedSoFar, segReps)

\* The pass over a pool of three or more reps has ended with loads that are
\* not all equal and with an account the heap and the scan gave to
\* different reps.
C29_Witness ==
  /\ pureGreedyDone
  /\ Len(segReps) >= 3
  /\ assigned # scannedSoFar
  /\ Cardinality(loads(assigned, segReps)) >= 2
  /\ \E r \in Range(segReps) :
       loadOf(assigned, r.Rep_Name) # loadOf(scannedSoFar, r.Rep_Name)
\* Where the account with a given id stands in the input.
inputPosition(id) == CHOOSE p \in 1..Len(accounts) : accounts[p].Account_ID = id

staffed(s) == \E r \in Range(reps) : r.Segment = s

\* C30: output order and content of distributeAccounts.  The result holds
\* exactly the input accounts labelled Enterprise followed by exactly those
\* labelled Mid Market, each once and alike in every field but Assigned_Rep;
\* within a segment that has a rep they stand in non-increasing ARR order,
\* equal-ARR accounts in input order; within a segment without reps they
\* stand in input order; an input account without a Segment label is absent.
C30_OutputOrderAndContent ==
  pc = "done" =>
    /\ \A i \in 1..Len(result) :
         /\ result[i].Segment \in Segments
         /\ \E p \in 1..Len(accounts) :
              [result[i] EXCEPT !.Assigned_Rep = accounts[p].Assigned_Rep] = accounts[p]
    /\ \A p \in 1..Len(accounts) :
         occurrences(result, accounts[p].Account_ID)
           = IF accounts[p].Segment \in Segments THEN 1 ELSE 0
    /\ \A i, j \in 1..Len(result) :
         i < j =>
           /\ ~(result[i].Segment = MidMarket /\ result[j].Segment = Enterprise)
           /\ result[i].Segment = result[j].Segment =>
                IF staffed(result[i].Segment)
                THEN \/ result[i].ARR > result[j].ARR
                     \/ /\ result[i].ARR = result[j].ARR
                        /\ inputPosition(result[i].Account_ID)
                             < inputPosition(result[j].Account_ID)
                ELSE inputPosition(result[i].Account_ID)
                       < inputPosition(result[j].Account_ID)

\* One segment has a rep and its accounts were reordered with a tie kept in
\* input order, the other has accounts but no rep, and an unlabelled
\* account of the input is missing from the result.
C30_Witness ==
  /\ pc = "done"
  /\ \E s, t \in Segments :
       /\ staffed(s) /\ ~staffed(t)
       /\ ofSegment(result, t) # <<>>
       /\ \E i, j, l \in 1..Len(result) :
            /\ i < j /\ j < l
            /\ result[i].Segment = s /\ result[j].Segment = s /\ result[l].Segment = s
            /\ result[i].ARR = result[j].ARR
            /\ result[j].ARR > result[l].ARR
            /\ inputPosition(result[l].Account_ID) < inputPosition(result[i].Account_ID)
  /\ \E a \in Range(accounts) : a.Segment = Undefined
====
